---- MODULE Spec2Model ----
(***************************************************************************)
(* State-machine model of mikettle/mikettle.py (class MiKettle): the       *)
(* notification-driven status cache with its retry policy, the             *)
(* authentication handshake, and the unlocked query operations, run by a   *)
(* small number of caller threads against a nondeterministic transport     *)
(* (bluepy's Peripheral).                                                  *)
(***************************************************************************)
EXTENDS Integers, Sequences, FiniteSets, TLC

\* ------------------------------------------------------------ bounds
\* Caller threads of one client instance (Spec runs thread 1 alone).
NThreads == 2
\* How often the clock advances in one run (a sleep, a timeout that elapses,
\* time passing between calls).
MaxTicks == 2
\* The same for the two-thread specification.
MaxTicksConc == 1
\* The time that passes between two calls, in seconds.
PassLong == 300
\* The same for the specification under fair scheduling: enough for every
\* timeout and sleep of one parameter_value call.
MaxTicksLive == 6
\* The longest status frame handed to the decoder on its own.
MaxFrameLen == 12
\* The longest input handed to the cipher on its own.
MaxInputLen == 3

\* ------------------------------------------------- program constants
_HANDLE_READ_FIRMWARE_VERSION == 26
_HANDLE_READ_MANU == 18
_HANDLE_READ_NAME == 20
_HANDLE_AUTH_INIT == 44
_HANDLE_AUTH == 37
_HANDLE_VERIFY == 42
_HANDLE_STATUS == 61
\* A handle the dispatcher does not know (handleNotification's else branch).
HANDLE_UNKNOWN == 99

\* __init__ defaults: cache_timeout=600, retries=3, ble_timeout = 10.
cache_timeout == 600
retries == 3
ble_timeout == 10
\* auth(): waitForNotifications(10.0)
auth_timeout == 10
\* fill_cache(): timedelta(seconds=300) and time.sleep(3)
backoff_window == 300
retry_delay == 3

\* Python's None and a present value, for the fields that may hold either.
None == <<>>
Some(x) == <<x>>
Get(o) == o[1]

MI_ACTION == "action"
MI_MODE == "mode"
MI_SET_TEMPERATURE == "set temperature"
MI_CURRENT_TEMPERATURE == "current temperature"
MI_KW_TYPE == "keep warm type"
MI_CURRENT_KW_TIME == "current keep warm time"
MI_SET_KW_TIME == "set keep warm time"
MI_EWU == "extended warm up"

MI_ACTION_MAP == (0 :> "idle") @@ (1 :> "heating") @@ (2 :> "cooling") @@ (3 :> "keeping warm")
\* The mode map without its entry for 255.
MI_MODE_MAP_WithoutNone == (1 :> "boil") @@ (2 :> "keep warm")
MI_MODE_MAP == (255 :> "none") @@ (1 :> "boil") @@ (2 :> "keep warm")
MI_KW_TYPE_MAP == (0 :> "boil and cool down to set temperature") @@ (1 :> "warm up to set temperature")
MI_EWU_MAP == (0 :> "true") @@ (1 :> "false")

\* ------------------------------------------------------ status decoder
\* bytes_to_int: big-endian fold of a byte sequence.
RECURSIVE bytes_to_int(_)
bytes_to_int(bs) ==
    IF bs = <<>> THEN 0
    ELSE bytes_to_int(SubSeq(bs, 1, Len(bs) - 1)) * 256 + bs[Len(bs)]

\* Whether _parse_data(data) raises (IndexError on a short frame, KeyError on
\* a byte that is no key of its map).  Python's data[k] is data[k+1] here.
parse_raises(data) ==
    \/ Len(data) < 11
    \/ data[1] \notin DOMAIN MI_ACTION_MAP
    \/ data[2] \notin DOMAIN MI_MODE_MAP
    \/ data[7] \notin DOMAIN MI_KW_TYPE_MAP
    \/ data[10] \notin DOMAIN MI_EWU_MAP

_parse_data(data) ==
    [ action |-> MI_ACTION_MAP[data[1]],
      mode |-> MI_MODE_MAP[data[2]],
      set_temperature |-> data[5],
      current_temperature |-> data[6],
      kw_type |-> MI_KW_TYPE_MAP[data[7]],
      current_kw_time |-> bytes_to_int(SubSeq(data, 8, 8)),
      ewu |-> MI_EWU_MAP[data[10]],
      set_kw_time |-> data[11] ]

\* self._cache[parameter]
Field(rec, parameter) ==
    CASE parameter = MI_ACTION -> rec.action
      [] parameter = MI_MODE -> rec.mode
      [] parameter = MI_SET_TEMPERATURE -> rec.set_temperature
      [] parameter = MI_CURRENT_TEMPERATURE -> rec.current_temperature
      [] parameter = MI_KW_TYPE -> rec.kw_type
      [] parameter = MI_CURRENT_KW_TIME -> rec.current_kw_time
      [] parameter = MI_SET_KW_TIME -> rec.set_kw_time
      [] parameter = MI_EWU -> rec.ewu

\* -------------------------------------------------------- byte mixer
\* reverseMac: the octets of the MAC string, last first.
RECURSIVE reverseMac(_)
reverseMac(mac) ==
    IF mac = <<>> THEN <<>> ELSE Append(reverseMac(Tail(mac)), Head(mac))

\* Python's mac[k] is mac[k+1] here.
mixA(mac, productID) ==
    << mac[1], mac[3], mac[6], productID % 256, productID % 256, mac[5], mac[6], mac[2] >>

mixB(mac, productID) ==
    << mac[1], mac[3], mac[6], (productID \div 256) % 256, mac[5], mac[1], mac[6], productID % 256 >>

\* ------------------------------------------------------ stream cipher
\* Addition modulo 256 in the place of ^.
PlusMod256(a, b) == (a + b) % 256

\* a ^ b on non-negative integers.
RECURSIVE Xor(_, _)
Xor(a, b) ==
    IF a = 0 THEN b
    ELSE IF b = 0 THEN a
    ELSE ((a + b) % 2) + 2 * Xor(a \div 2, b \div 2)

\* perm[i], perm[j] = perm[j], perm[i]
Swap(perm, i, j) == [perm EXCEPT ![i] = perm[j], ![j] = perm[i]]

\* One round i of the second loop of _cipherInit on st = [perm, j].
cipherInitRound(st, key, i) ==
    LET j2 == (st.j + st.perm[i] + key[(i % Len(key)) + 1]) % 256
    IN  [perm |-> Swap(st.perm, i, j2), j |-> j2]

\* Rounds lo .. hi-1 of that loop in order.  The range is halved, and the first
\* half is evaluated (its j is a byte) before the second starts, to keep the
\* evaluation shallow; the rounds and their order are the loop's.
RECURSIVE cipherInitRounds(_, _, _, _)
cipherInitRounds(st, key, lo, hi) ==
    IF hi - lo = 1 THEN cipherInitRound(st, key, lo)
    ELSE LET mid == (lo + hi) \div 2
             half == cipherInitRounds(st, key, lo, mid)
         IN  IF half.j \in 0 .. 255 THEN cipherInitRounds(half, key, mid, hi) ELSE half

\* The first loop of _cipherInit: perm[i] = i for i in lo .. hi-1.
RECURSIVE identityPerm(_, _)
identityPerm(lo, hi) ==
    IF hi - lo = 1 THEN lo :> lo
    ELSE identityPerm(lo, (lo + hi) \div 2) @@ identityPerm((lo + hi) \div 2, hi)

_cipherInit(key) ==
    cipherInitRounds([perm |-> identityPerm(0, 256), j |-> 0], key, 0, 256).perm

\* The loop of _cipherCrypt over the input bytes not yet consumed.
RECURSIVE cipherCryptLoop(_, _, _, _)
cipherCryptLoop(input, perm, index1, index2) ==
    IF input = <<>> THEN <<>>
    ELSE LET i1 == (index1 + 1) % 256
             i2 == (index2 + perm[i1]) % 256
             perm2 == Swap(perm, i1, i2)
             idx == (perm2[i1] + perm2[i2]) % 256
             outputByte == Xor(Head(input), perm2[idx])
         IN  <<outputByte % 256>> \o cipherCryptLoop(Tail(input), perm2, i1, i2)

_cipherCrypt(input, perm) == cipherCryptLoop(input, perm, 0, 0)

cipher(key, input) == _cipherCrypt(input, _cipherInit(key))

\* -------------------------------------------------- session identity
_KEY1 == <<144, 202, 133, 222>>
_KEY2 == <<146, 171, 84, 250>>
_SUBSCRIBE_TRUE == <<1, 0>>
_UUID_SERVICE_KETTLE == "fe95"
_UUID_SERVICE_KETTLE_DATA == "01344736-0000-1000-8000-262837236156"
\* The device of the model: MAC 66:55:44:33:22:11, product id 275.
_mac == <<102, 85, 68, 51, 34, 17>>
_product_id == 275
_reversed_mac == reverseMac(_mac)
\* generateRandomToken(): the fixed 12 bytes.
generateRandomToken == <<1, 92, 203, 168, 128, 10, 189, 193, 46, 184, 237, 130>>
_token == generateRandomToken

\* handleNotification's test on the auth handle: the bytes verify.
AuthVerifies(data) ==
    cipher(mixB(_reversed_mac, _product_id),
           cipher(mixA(_reversed_mac, _product_id), data)) = _token

\* The two messages auth() writes to _HANDLE_AUTH.
authTokenMessage == cipher(mixA(_reversed_mac, _product_id), _token)
authKey2Message == cipher(_token, _KEY2)

\* Bytes the device may notify on the auth handle: the answer recorded from a
\* device that holds the token (computed with the Python source), and the
\* token echoed back.
GoodResponse == <<24, 46, 180, 39, 229, 218, 160, 125, 28, 94, 189, 36>>
Responses == { GoodResponse, _token }

\* The responses handleNotification accepts.
VerifiedResponses == { r \in Responses : AuthVerifies(r) }

\* ------------------------------------------------------------- inputs
\* Status frames the device may send: two well-formed ones, and one whose
\* action byte is no key of MI_ACTION_MAP.
Frames ==
    { <<1, 1, 0, 0, 75, 60, 1, 0, 0, 0, 34>>,
      <<0, 255, 0, 0, 80, 25, 0, 5, 0, 1, 0>>,
      <<7, 1, 0, 0, 75, 60, 1, 0, 0, 0, 34>> }

\* Parameters a caller asks for.
Parameters == {MI_ACTION, MI_CURRENT_TEMPERATURE}

Threads == 1 .. NThreads

\* The query operations modelled: connect(), auth(), one readCharacteristic.
Queries == {"name", "manufacturer", "firmware_version"}

\* The handle each query reads, and the handle its error message names.
ReadHandle(o) ==
    CASE o = "name" -> _HANDLE_READ_NAME
      [] o = "manufacturer" -> _HANDLE_READ_MANU
      [] o = "firmware_version" -> _HANDLE_READ_FIRMWARE_VERSION

ErrorHandle(o) ==
    CASE o = "name" -> _HANDLE_READ_NAME
      [] o = "manufacturer" -> _HANDLE_READ_NAME
      [] o = "firmware_version" -> _HANDLE_READ_FIRMWARE_VERSION

\* What readCharacteristic may return for a query: nothing, or two bytes.
ReadValues == { <<>>, <<77, 105>> }

\* Notifications the transport may deliver during a wait: (cHandle, data).
Notifications ==
    ({_HANDLE_AUTH} \X {Some(r) : r \in Responses})
        \cup ({_HANDLE_STATUS} \X ({Some(f) : f \in Frames} \cup {None}))
        \cup {<<HANDLE_UNKNOWN, Some(<<0>>)>>}

\* Exceptions bluepy raises for a lost or faulted connection.
TransportErrors == {"BTLEInternalError", "BTLEDisconnectError"}

\* Amounts of time that pass between two calls.
PassSteps == {PassLong, PassLong + 1}

\* Frames handed to _parse_data on its own: every length up to MaxFrameLen,
\* keys and non-keys of the four maps at offsets 0, 1, 6 and 9, and the two
\* extreme byte values at the offsets read as plain integers.
EnumBytes == {0, 1, 3, 4, 255}
RawBytes == {0, 255}
FullFrames ==
    { <<a, m, 0, 0, st, ct, kw, kt, 0, e, skt, 9>> :
        a \in EnumBytes, m \in EnumBytes, kw \in EnumBytes, e \in EnumBytes,
        st \in RawBytes, ct \in {60}, kt \in RawBytes, skt \in RawBytes }
ProbeFrames ==
    { SubSeq(f, 1, 11) : f \in FullFrames }
        \cup { SubSeq(<<1, 1, 0, 0, 75, 60, 1, 0, 0, 0, 34, 9, 9, 9>>, 1, n) : n \in 0 .. MaxFrameLen }

\* Keys and inputs handed to cipher on its own: the keys the client uses (4,
\* 8 and 12 bytes) and every input up to MaxInputLen bytes over four values.
ProbeKeys == { _KEY1, _KEY2, _token, mixA(_reversed_mac, _product_id) }
InputBytes == {0, 1, 128, 255}
RECURSIVE InputsOfLen(_)
InputsOfLen(n) ==
    IF n = 0 THEN { <<>> }
    ELSE { Append(x, b) : x \in InputsOfLen(n - 1), b \in InputBytes }
ProbeInputs == UNION { InputsOfLen(n) : n \in 0 .. MaxInputLen }

\* ---------------------------------------------------------------- state
VARIABLES
    _cache,          \* self._cache: None or the decoded status record
    _last_read,      \* self._last_read: None or a time
    _p,              \* self._p: None or the Peripheral
    _authenticated,  \* self._authenticated
    lock,            \* self.lock: 0 (free) or the thread holding it
    now,             \* datetime.now(), in seconds
    link,            \* the connection behind self._p: "down", "up" or "dead"
    budget,          \* how often the clock may still advance in this run
    material,        \* the session's cipher material, computed once
    handshakes,      \* handshakes completed on the connection self._p holds
    pc,              \* each thread's position
    op,              \* each thread's current operation
    read_cached,     \* parameter_value's read_cached argument
    i,               \* fill_cache's loop variable
    result,          \* what the finished call returned or raised
    log,             \* this call's fill cycle: how each attempt ended, and "sleep"
    trace,           \* transport operations of the current attempt / query
    auth_heard,      \* the notification on _HANDLE_AUTH handed to the handler in
                     \* the current attempt / query, and the wait that got it
    touched,         \* this call issued a transport operation
    filled,          \* this call ran fill_cache
    decoded,         \* this call decoded a status frame
    within_ttl,      \* at this call's staleness test, now - _last_read <= ttl
    probe            \* a pure function called on its own: its input and output

vars == << _cache, _last_read, _p, _authenticated, lock, now, link, budget,
           material, handshakes,
           pc, op, read_cached, i, result, log, trace, auth_heard, touched,
           filled, decoded, within_ttl, probe >>

shared == << _cache, _last_read, _p, _authenticated, lock, now, link, budget,
            material, handshakes, probe >>
ghosts == << log, trace, auth_heard, touched, filled, decoded, within_ttl >>

NoResult == [kind |-> "none"]
NoProbe == [fn |-> "none"]

InitWith(h) ==
    /\ _cache = None
    /\ _last_read = None
    /\ _p = None
    /\ _authenticated = FALSE
    /\ lock = 0
    /\ now = 0
    /\ link = "down"
    /\ budget = h
    /\ material = [token_msg |-> authTokenMessage, key2_msg |-> authKey2Message,
                   accepted |-> VerifiedResponses]
    /\ handshakes = 0
    /\ pc = [t \in Threads |-> "idle"]
    /\ op = [t \in Threads |-> "none"]
    /\ read_cached = [t \in Threads |-> TRUE]
    /\ i = [t \in Threads |-> 0]
    /\ result = [t \in Threads |-> NoResult]
    /\ log = [t \in Threads |-> <<>>]
    /\ trace = [t \in Threads |-> <<>>]
    /\ auth_heard = [t \in Threads |-> None]
    /\ touched = [t \in Threads |-> FALSE]
    /\ filled = [t \in Threads |-> FALSE]
    /\ decoded = [t \in Threads |-> FALSE]
    /\ within_ttl = [t \in Threads |-> FALSE]

Init == InitWith(MaxTicks) /\ probe = NoProbe

\* ----------------------------------------------------------- helpers
\* The clock advances by d seconds.
Advance(d) ==
    /\ budget > 0
    /\ budget' = budget - 1
    /\ now' = now + d

Goto(t, label) == pc' = [pc EXCEPT ![t] = label]

cache_available(c) == c # None

\* Where auth() returns to: subscribeToData in fill_cache, the read in a query.
AfterAuth(t) == IF op[t] = "get" THEN "s_svc" ELSE "q_read"

\* An exception that leaves the call whatever the operation is.
RaiseEscapes(t, kind) ==
    /\ Goto(t, "done")
    /\ result' = [result EXCEPT ![t] = [kind |-> "raised", error |-> kind]]
    /\ UNCHANGED log

\* An exception of class `kind` leaves the current statement of thread t: inside
\* fill_cache's try it reaches one of the two handlers, in a query it leaves
\* the call.
Raise(t, kind) ==
    IF op[t] = "get"
    THEN /\ Goto(t, IF kind = "BTLEInternalError" THEN "except_internal" ELSE "except_other")
         /\ log' = [log EXCEPT ![t] = Append(@, kind)]
         /\ UNCHANGED result
    ELSE /\ Goto(t, "done")
         /\ result' = [result EXCEPT ![t] = [kind |-> "raised", error |-> kind]]
         /\ UNCHANGED log

\* A transport call as the trace records it.
TOp(name, handle, data) == [op |-> name, handle |-> handle, data |-> data]

\* Thread t calls a method of self._p.  With no connection object the attribute
\* access raises; on a live link the call may succeed; on any link it may end
\* in a transport error, which leaves the link dead.
Issue(t, name) ==
    /\ trace' = [trace EXCEPT ![t] = Append(@, name)]
    /\ touched' = [touched EXCEPT ![t] = TRUE]

TransportFails(t) ==
    \/ /\ _p = None
       /\ Raise(t, "AttributeError")
       /\ UNCHANGED link
    \/ /\ _p # None
       /\ \E e \in TransportErrors : Raise(t, e)
       /\ link' = "dead"

TransportOp(t, name, next) ==
    /\ Issue(t, name)
    /\ \/ /\ _p # None /\ link = "up"
          /\ Goto(t, next)
          /\ UNCHANGED << link, log, result >>
       \/ TransportFails(t)

\* ------------------------------------------------------------- calls
\* A caller starts a public operation.  parameter_value takes the lock first;
\* the queries go straight to connect().
Call(t) ==
    /\ pc[t] = "idle"
    /\ \E o \in {"get"} \cup Queries, rc \in BOOLEAN :
          /\ o # "get" => rc
          /\ op' = [op EXCEPT ![t] = o]
          /\ read_cached' = [read_cached EXCEPT ![t] = rc]
          /\ Goto(t, IF o = "get" THEN "pv_lock" ELSE "connect")
    /\ UNCHANGED << shared, i, result, ghosts >>

\* with self.lock:
Acquire(t) ==
    /\ pc[t] = "pv_lock"
    /\ lock = 0
    /\ lock' = t
    /\ Goto(t, "pv_test")
    /\ UNCHANGED << probe, material, handshakes, _cache, _last_read, _p, _authenticated, now, link, budget,
                    op, read_cached, i, result, ghosts >>

\* The staleness test with the time-to-live left out of the comparison.
StaleIgnoringTtl(rc, last, clock) ==
    \/ rc = FALSE
    \/ last = None
    \/ clock > Get(last)

\* The staleness test of parameter_value.
Stale(rc, last, clock) ==
    \/ rc = FALSE
    \/ last = None
    \/ clock - cache_timeout > Get(last)

StalenessTest(t) ==
    /\ pc[t] = "pv_test"
    /\ within_ttl' = [within_ttl EXCEPT ![t] =
                         _last_read # None /\ now - Get(_last_read) <= cache_timeout]
    /\ IF Stale(read_cached[t], _last_read, now)
       THEN /\ Goto(t, "fc_loop")
            /\ filled' = [filled EXCEPT ![t] = TRUE]
            /\ i' = [i EXCEPT ![t] = 0]
       ELSE /\ Goto(t, "pv_release")
            /\ UNCHANGED << filled, i >>
    /\ UNCHANGED << shared, op, read_cached, result, log, trace, auth_heard,
                    touched, decoded >>

\* for i in range(self.retries): the next attempt starts, or the loop is over
\* and fill_cache returns.
LoopHead(t) ==
    /\ pc[t] = "fc_loop"
    /\ IF i[t] < retries
       THEN /\ Goto(t, "connect")
            /\ trace' = [trace EXCEPT ![t] = <<>>]
            /\ auth_heard' = [auth_heard EXCEPT ![t] = None]
       ELSE /\ Goto(t, "pv_release")
            /\ UNCHANGED << trace, auth_heard >>
    /\ UNCHANGED << shared, op, read_cached, i, result, log, touched, filled,
                    decoded, within_ttl >>

\* connect() going on to auth() when the constructor failed.
connectIgnoresFailure(t) ==
    /\ pc[t] = "connect"
    /\ Goto(t, "auth")
    /\ IF _p = None
       THEN /\ Issue(t, TOp("Peripheral", 0, <<>>))
            /\ \/ /\ _p' = Some("Peripheral")
                  /\ link' = "up"
                  /\ handshakes' = 0
               \/ UNCHANGED << _p, link, handshakes >>
       ELSE UNCHANGED << _p, link, handshakes, trace, touched >>
    /\ UNCHANGED << probe, material, _cache, _last_read, _authenticated, lock, now,
                    budget, op, read_cached, i, result, log, auth_heard, filled,
                    decoded, within_ttl >>

\* connect(): a Peripheral is made only when none is stored.  The constructor
\* may fail, and then self._p keeps its value.
connect(t) ==
    /\ pc[t] = "connect"
    /\ IF _p = None
       THEN /\ Issue(t, TOp("Peripheral", 0, <<>>))
            /\ \/ /\ _p' = Some("Peripheral")
                  /\ link' = "up"
                  /\ handshakes' = 0
                  /\ Goto(t, "auth")
                  /\ UNCHANGED << log, result >>
               \/ /\ \E e \in TransportErrors : Raise(t, e)
                  /\ UNCHANGED << _p, link, handshakes >>
       ELSE /\ Goto(t, "auth")
            /\ UNCHANGED << _p, link, handshakes, log, result, trace, touched >>
    /\ UNCHANGED << probe, material, _cache, _last_read, _authenticated, lock, now, budget,
                    op, read_cached, i, auth_heard, filled, decoded, within_ttl >>

\* auth() without its early return.
authAlways(t) ==
    /\ pc[t] = "auth"
    /\ Goto(t, "a_svc")
    /\ UNCHANGED << shared, op, read_cached, i, result, ghosts >>

\* auth(): if self._authenticated: return
auth(t) ==
    /\ pc[t] = "auth"
    /\ Goto(t, IF _authenticated THEN AfterAuth(t) ELSE "a_svc")
    /\ UNCHANGED << shared, op, read_cached, i, result, ghosts >>

\* One transport call of auth() or subscribeToData().  Those of auth() before
\* and after its wait, in order:
\* getServiceByUUID/getDescriptors, write _KEY1 to _HANDLE_AUTH_INIT, write
\* _SUBSCRIBE_TRUE to the descriptor, write cipher(mixA, token) to _HANDLE_AUTH;
\* then write cipher(token, _KEY2) to _HANDLE_AUTH.
AuthStep(t, name, next) ==
    /\ TransportOp(t, name, next)
    /\ UNCHANGED << probe, material, handshakes, _cache, _last_read, _p, _authenticated, lock, now, budget,
                    op, read_cached, i, auth_heard, filled, decoded, within_ttl >>

authDiscover(t) ==
    /\ pc[t] = "a_svc"
    /\ AuthStep(t, TOp("getDescriptors:" \o _UUID_SERVICE_KETTLE, 0, <<>>), "a_init")
authInit(t) ==
    /\ pc[t] = "a_init"
    /\ AuthStep(t, TOp("write", _HANDLE_AUTH_INIT, _KEY1), "a_desc")
authSubscribe(t) ==
    /\ pc[t] = "a_desc"
    /\ AuthStep(t, TOp("writeDescriptor", 1, _SUBSCRIBE_TRUE), "a_tok")
authToken(t) ==
    /\ pc[t] = "a_tok"
    /\ AuthStep(t, TOp("write", _HANDLE_AUTH, material.token_msg), "a_wait")
authKey2(t) ==
    /\ pc[t] = "a_key2"
    /\ AuthStep(t, TOp("write", _HANDLE_AUTH, material.key2_msg), "a_verify")

\* auth() setting self._authenticated before the read of _HANDLE_VERIFY.
authVerifySetsFlagFirst(t) ==
    /\ pc[t] = "a_verify"
    /\ Issue(t, TOp("read", _HANDLE_VERIFY, <<>>))
    /\ _authenticated' = TRUE
    /\ \/ /\ _p # None /\ link = "up"
          /\ handshakes' = handshakes + 1
          /\ Goto(t, AfterAuth(t))
          /\ UNCHANGED << link, log, result >>
       \/ /\ TransportFails(t)
          /\ UNCHANGED handshakes
    /\ UNCHANGED << probe, material, _cache, _last_read, _p, lock, now, budget,
                    op, read_cached, i, auth_heard, filled, decoded, within_ttl >>

\* self._p.readCharacteristic(_HANDLE_VERIFY); self._authenticated = True
authVerify(t) ==
    /\ pc[t] = "a_verify"
    /\ Issue(t, TOp("read", _HANDLE_VERIFY, <<>>))
    /\ \/ /\ _p # None /\ link = "up"
          /\ _authenticated' = TRUE
          /\ handshakes' = handshakes + 1
          /\ Goto(t, AfterAuth(t))
          /\ UNCHANGED << link, log, result >>
       \/ /\ TransportFails(t)
          /\ UNCHANGED << _authenticated, handshakes >>
    /\ UNCHANGED << probe, material, _cache, _last_read, _p, lock, now, budget,
                    op, read_cached, i, auth_heard, filled, decoded, within_ttl >>

\* A handler that accepts whatever arrives on _HANDLE_AUTH.
handlerRaisesOnDecodeOnly(cHandle, data) ==
    cHandle = _HANDLE_STATUS /\ data # None /\ parse_raises(Get(data))

\* handleNotification(cHandle, data): whether it raises, and with what.
handlerRaises(cHandle, data) ==
    \/ cHandle = _HANDLE_AUTH /\ Get(data) \notin material.accepted
    \/ cHandle = _HANDLE_STATUS /\ data # None /\ parse_raises(Get(data))

handlerError(cHandle) ==
    IF cHandle = _HANDLE_AUTH THEN "AuthenticationFailed" ELSE "DecodeError"

\* handleNotification(cHandle, data) when it does not raise: a status frame
\* replaces the cache and stamps _last_read; anything else changes nothing.
handleNotification(t, cHandle, data) ==
    IF cHandle = _HANDLE_STATUS /\ data # None
    THEN LET parsed == Some(_parse_data(Get(data)))
         IN  /\ _cache' = parsed
             /\ _last_read' = IF cache_available(parsed)
                              THEN Some(now)
                              ELSE Some(now - cache_timeout + backoff_window)
             /\ decoded' = [decoded EXCEPT ![t] = TRUE]
    ELSE UNCHANGED << _cache, _last_read, decoded >>

\* How the log names the end of a wait that did not raise.
WaitEnd(cHandle, data) ==
    IF cHandle = _HANDLE_STATUS
    THEN IF data # None THEN "Decoded" ELSE "NullPayload"
    ELSE "Ignored"

\* self._p.waitForNotifications(timeout): it returns after the
\* timeout with nothing delivered, or delivers one notification to
\* handleNotification (whose exception leaves the wait), or ends in a
\* transport error.  Its return value is not looked at.  `ends` says whether
\* the wait is the last statement of a fill_cache attempt.
waitForNotifications(t, timeout, next, ends) ==
    /\ \/ /\ _p # None /\ link = "up"
          /\ Issue(t, TOp("waitForNotifications", 0, <<timeout>>))
          /\ Advance(timeout)
          /\ Goto(t, next)
          /\ log' = [log EXCEPT ![t] = IF ends THEN Append(@, "Timeout") ELSE @]
          /\ UNCHANGED << _cache, _last_read, decoded, link, result, auth_heard >>
       \/ /\ _p # None /\ link = "up"
          /\ UNCHANGED << now, budget >>
          /\ Issue(t, TOp("waitForNotifications", 0, <<timeout>>))
          /\ \E n \in Notifications :
                /\ auth_heard' = [auth_heard EXCEPT ![t] =
                                      IF n[1] = _HANDLE_AUTH
                                      THEN Some([at |-> Len(trace[t]) + 1, data |-> Get(n[2])])
                                      ELSE @]
                /\ IF handlerRaises(n[1], n[2])
                   THEN /\ Raise(t, handlerError(n[1]))
                        /\ UNCHANGED << _cache, _last_read, decoded >>
                   ELSE /\ handleNotification(t, n[1], n[2])
                        /\ Goto(t, next)
                        /\ log' = [log EXCEPT ![t] =
                                      IF ends THEN Append(@, WaitEnd(n[1], n[2])) ELSE @]
                        /\ UNCHANGED result
          /\ UNCHANGED link
       \/ /\ Issue(t, TOp("waitForNotifications", 0, <<timeout>>))
          /\ TransportFails(t)
          /\ UNCHANGED << _cache, _last_read, decoded, now, budget, auth_heard >>
    /\ UNCHANGED << probe, material, handshakes, _p, _authenticated, lock, op,
                    read_cached, i, filled, within_ttl >>

\* auth(): self._p.waitForNotifications(10.0)
authWait(t) ==
    /\ pc[t] = "a_wait"
    /\ waitForNotifications(t, auth_timeout, "a_key2", FALSE)

\* subscribeToData(): getServiceByUUID/getDescriptors, then the descriptor write.
subscribeDiscover(t) ==
    /\ pc[t] = "s_svc"
    /\ AuthStep(t, TOp("getDescriptors:" \o _UUID_SERVICE_KETTLE_DATA, 0, <<>>), "s_desc")
subscribeToData(t) ==
    /\ pc[t] = "s_desc"
    /\ AuthStep(t, TOp("writeDescriptor", 3, _SUBSCRIBE_TRUE), "fc_wait")

\* fill_cache(): self._p.waitForNotifications(self.ble_timeout); break
fillWait(t) ==
    /\ pc[t] = "fc_wait"
    /\ waitForNotifications(t, ble_timeout, "pv_release", TRUE)

\* The BTLEInternalError handler without the reset of self._authenticated.
exceptInternalKeepsAuth(t) ==
    /\ pc[t] = "except_internal"
    /\ IF _p # None
       THEN /\ _p' = None
            /\ link' = "down"
            /\ handshakes' = 0
       ELSE UNCHANGED << _p, link, handshakes >>
    /\ i' = [i EXCEPT ![t] = @ + 1]
    /\ Goto(t, "fc_loop")
    /\ UNCHANGED << probe, material, _cache, _last_read, _authenticated, lock, now, budget,
                    op, read_cached, result, ghosts >>

\* except BTLEInternalError: drop the connection if one is stored, then go on
\* with the next attempt.
exceptInternal(t) ==
    /\ pc[t] = "except_internal"
    /\ IF _p # None
       THEN /\ _p' = None
            /\ _authenticated' = FALSE
            /\ link' = "down"
            /\ handshakes' = 0
       ELSE UNCHANGED << _p, _authenticated, link, handshakes >>
    /\ i' = [i EXCEPT ![t] = @ + 1]
    /\ Goto(t, "fc_loop")
    /\ UNCHANGED << probe, material, _cache, _last_read, lock, now, budget, op, read_cached,
                    result, ghosts >>

\* The Exception handler leaving parameter_value's with block on its return
\* without the release of the lock.
exceptOtherSkipsRelease(t) ==
    /\ pc[t] = "except_other"
    /\ IF i[t] = retries - 1
       THEN /\ _last_read' = Some(now - cache_timeout + backoff_window)
            /\ Goto(t, "pv_return")
       ELSE /\ Goto(t, "fc_sleep")
            /\ UNCHANGED _last_read
    /\ UNCHANGED << probe, material, handshakes, _cache, _p, _authenticated, lock, now,
                    link, budget, op, read_cached, i, result, ghosts >>

\* except Exception: on the last attempt set _last_read back and return,
\* otherwise go to sleep.
exceptOther(t) ==
    /\ pc[t] = "except_other"
    /\ IF i[t] = retries - 1
       THEN /\ _last_read' = Some(now - cache_timeout + backoff_window)
            /\ Goto(t, "pv_release")
       ELSE /\ Goto(t, "fc_sleep")
            /\ UNCHANGED _last_read
    /\ UNCHANGED << probe, material, handshakes, _cache, _p, _authenticated, lock, now, link, budget, op,
                    read_cached, i, result, ghosts >>

\* time.sleep(3), then the next attempt.
sleep(t) ==
    /\ pc[t] = "fc_sleep"
    /\ Advance(retry_delay)
    /\ log' = [log EXCEPT ![t] = Append(@, "sleep")]
    /\ i' = [i EXCEPT ![t] = @ + 1]
    /\ Goto(t, "fc_loop")
    /\ UNCHANGED << probe, material, handshakes, _cache, _last_read, _p, _authenticated, lock, link,
                    op, read_cached, result, trace, auth_heard, touched, filled, decoded,
                    within_ttl >>

\* The with block of parameter_value ends.
Release(t) ==
    /\ pc[t] = "pv_release"
    /\ lock' = 0
    /\ Goto(t, "pv_return")
    /\ UNCHANGED << probe, material, handshakes, _cache, _last_read, _p, _authenticated, now, link, budget,
                    op, read_cached, i, result, ghosts >>

\* if self.cache_available(): return self._cache[parameter]; else: raise
parameterReturn(t) ==
    /\ pc[t] = "pv_return"
    /\ \E parameter \in Parameters :
          result' = [result EXCEPT ![t] =
                        IF cache_available(_cache)
                        THEN [kind |-> "value", parameter |-> parameter,
                              value |-> Field(Get(_cache), parameter)]
                        ELSE [kind |-> "raised", error |-> "Could not read data",
                              mac |-> _mac]]
    /\ Goto(t, "done")
    /\ UNCHANGED << shared, op, read_cached, i, ghosts >>

\* A query's readCharacteristic and what follows it: an empty value raises an
\* error naming a handle and the device, anything else is returned.
queryRead(t) ==
    /\ pc[t] = "q_read"
    /\ Issue(t, TOp("read", ReadHandle(op[t]), <<>>))
    /\ \/ /\ _p # None /\ link = "up"
          /\ \E v \in ReadValues :
                result' = [result EXCEPT ![t] =
                              IF v = <<>>
                              THEN [kind |-> "raised", error |-> "Could not read",
                                    handle |-> ErrorHandle(op[t]), mac |-> _mac]
                              ELSE [kind |-> "value", parameter |-> op[t], value |-> v]]
          /\ Goto(t, "done")
          /\ UNCHANGED << link, log >>
       \/ TransportFails(t)
    /\ UNCHANGED << probe, material, handshakes, _cache, _last_read, _p, _authenticated, lock, now, budget,
                    op, read_cached, i, auth_heard, filled, decoded, within_ttl >>

\* The caller has its answer; the thread is free for the next call.
Return(t) ==
    /\ pc[t] = "done"
    /\ Goto(t, "idle")
    /\ op' = [op EXCEPT ![t] = "none"]
    /\ read_cached' = [read_cached EXCEPT ![t] = TRUE]
    /\ i' = [i EXCEPT ![t] = 0]
    /\ result' = [result EXCEPT ![t] = NoResult]
    /\ log' = [log EXCEPT ![t] = <<>>]
    /\ trace' = [trace EXCEPT ![t] = <<>>]
    /\ auth_heard' = [auth_heard EXCEPT ![t] = None]
    /\ touched' = [touched EXCEPT ![t] = FALSE]
    /\ filled' = [filled EXCEPT ![t] = FALSE]
    /\ decoded' = [decoded EXCEPT ![t] = FALSE]
    /\ within_ttl' = [within_ttl EXCEPT ![t] = FALSE]
    /\ UNCHANGED shared

\* Time passes while no call is running.
Pass ==
    /\ \A t \in Threads : pc[t] = "idle"
    /\ \E d \in PassSteps : Advance(d)
    /\ UNCHANGED << probe, material, handshakes, _cache, _last_read, _p, _authenticated, lock, link,
                    pc, op, read_cached, i, result, ghosts >>

\* ------------------------------------------------------ specifications
\* A call up to the end of its first attempt.
FirstAttempt(t) ==
    \/ Call(t)
    \/ Acquire(t)
    \/ StalenessTest(t)
    \/ LoopHead(t)
    \/ connect(t)
    \/ auth(t)
    \/ authDiscover(t)
    \/ authInit(t)
    \/ authSubscribe(t)
    \/ authToken(t)
    \/ authWait(t)
    \/ authKey2(t)
    \/ authVerify(t)
    \/ subscribeDiscover(t)
    \/ subscribeToData(t)
    \/ fillWait(t)
    \/ Release(t)
    \/ parameterReturn(t)
    \/ queryRead(t)

\* The handlers of fill_cache and the retry.
Retry(t) ==
    \/ exceptInternal(t)
    \/ exceptOther(t)
    \/ sleep(t)

\* One caller, call after call.
Next == FirstAttempt(1) \/ Retry(1) \/ Return(1) \/ Pass

Spec == Init /\ [][Next]_vars

\* Two callers of one client instance, each making one call and giving up at
\* the first exception.
InitConc == InitWith(MaxTicksConc) /\ probe = NoProbe

NextConc == \E t \in Threads : FirstAttempt(t)

SpecConc == InitConc /\ [][NextConc]_vars

\* Thread 1 makes one parameter_value call and runs it to its end; thread 2
\* is a second caller of parameter_value, followed up to the point where it
\* has the lock.  A thread that can take a step eventually takes one: a
\* running call is never suspended for ever, and every transport call returns
\* or raises.
InitLive == InitWith(MaxTicksLive) /\ probe = NoProbe

CallGet(t) ==
    /\ pc[t] = "idle"
    /\ \E rc \in BOOLEAN :
          /\ op' = [op EXCEPT ![t] = "get"]
          /\ read_cached' = [read_cached EXCEPT ![t] = rc]
          /\ Goto(t, "pv_lock")
    /\ UNCHANGED << shared, i, result, ghosts >>

GetStep(t) ==
    \/ Acquire(t)
    \/ StalenessTest(t)
    \/ LoopHead(t)
    \/ connect(t)
    \/ auth(t)
    \/ authDiscover(t)
    \/ authInit(t)
    \/ authSubscribe(t)
    \/ authToken(t)
    \/ authWait(t)
    \/ authKey2(t)
    \/ authVerify(t)
    \/ subscribeDiscover(t)
    \/ subscribeToData(t)
    \/ fillWait(t)
    \/ exceptInternal(t)
    \/ exceptOther(t)
    \/ sleep(t)
    \/ Release(t)
    \/ parameterReturn(t)

NextLive == CallGet(1) \/ GetStep(1) \/ CallGet(2) \/ Acquire(2)

SpecLive ==
    /\ InitLive
    /\ [][NextLive]_vars
    /\ WF_vars(GetStep(1))
    /\ WF_vars(Acquire(2))

\* The static methods called on their own, on inputs drawn at the start.
InitPure ==
    /\ InitWith(0)
    /\ probe \in { [fn |-> "_parse_data", stage |-> "input", data |-> f] : f \in ProbeFrames }
                 \cup { [fn |-> "cipher", stage |-> "input", key |-> k, data |-> x] :
                           k \in ProbeKeys, x \in ProbeInputs }

\* _parse_data(data): the record, or the exception.
CallParseData ==
    /\ probe.fn = "_parse_data" /\ probe.stage = "input"
    /\ probe' = [fn |-> "_parse_data", stage |-> "output", data |-> probe.data,
                 raised |-> parse_raises(probe.data),
                 out |-> IF parse_raises(probe.data) THEN None
                         ELSE Some(_parse_data(probe.data))]
    /\ UNCHANGED << _cache, _last_read, _p, _authenticated, lock, now, link, budget,
                    material, handshakes, pc, op, read_cached, i, result, ghosts >>

\* cipher(key, input), and cipher(key, .) of what it returned.
CallCipher ==
    /\ probe.fn = "cipher" /\ probe.stage = "input"
    /\ LET once == cipher(probe.key, probe.data)
       IN  probe' = [fn |-> "cipher", stage |-> "output", key |-> probe.key,
                     data |-> probe.data, once |-> once,
                     twice |-> cipher(probe.key, once)]
    /\ UNCHANGED << _cache, _last_read, _p, _authenticated, lock, now, link, budget,
                    material, handshakes, pc, op, read_cached, i, result, ghosts >>

NextPure == CallParseData \/ CallCipher

SpecPure == InitPure /\ [][NextPure]_vars

\* ------------------------------------------------------------ claims
Last(seq) == seq[Len(seq)]

\* How the attempts of a fill cycle ended, and how often it slept.
AttemptEnds(l) == SelectSeq(l, LAMBDA e : e # "sleep")
Sleeps(l) == Len(SelectSeq(l, LAMBDA e : e = "sleep"))

\* Thread t is past the staleness test of a parameter_value call.
PastTest(t) ==
    /\ op[t] = "get"
    /\ pc[t] \notin {"idle", "pv_lock", "pv_test"}

\* C1 (cache staleness): a parameter_value call with read_cached = True whose
\* staleness test finds now - _last_read <= cache_timeout runs no fill cycle
\* and issues no transport operation; with a snapshot stored (one was decoded
\* before) it returns the requested field of that snapshot.
C1_CachedGetTouchesNothing ==
    \A t \in Threads :
        (PastTest(t) /\ read_cached[t] /\ within_ttl[t])
            => /\ ~filled[t]
               /\ ~touched[t]
               /\ trace[t] = <<>>
               /\ log[t] = <<>>
               /\ (pc[t] = "done" /\ _cache # None)
                     => /\ result[t].kind = "value"
                        /\ result[t].value = Field(Get(_cache), result[t].parameter)

\* A cached call has returned a field of a snapshot decoded earlier.
C1_Witness ==
    /\ pc[1] = "done" /\ op[1] = "get" /\ read_cached[1] /\ within_ttl[1]
    /\ _cache # None
    /\ result[1].kind = "value"
    /\ now > Get(_last_read)

\* The positions of one attempt after connect(): auth() and subscribeToData()
\* up to the wait of fill_cache.
HandshakePcs == {"a_svc", "a_init", "a_desc", "a_tok", "a_wait", "a_key2", "a_verify"}
AttemptPcs == {"auth"} \cup HandshakePcs \cup {"s_svc", "s_desc", "fc_wait"}

\* The transport calls of connect() and a complete auth(), in order.
Handshake ==
    << TOp("Peripheral", 0, <<>>),
       TOp("getDescriptors:" \o _UUID_SERVICE_KETTLE, 0, <<>>),
       TOp("write", _HANDLE_AUTH_INIT, _KEY1),
       TOp("writeDescriptor", 1, _SUBSCRIBE_TRUE),
       TOp("write", _HANDLE_AUTH, material.token_msg),
       TOp("waitForNotifications", 0, <<auth_timeout>>),
       TOp("write", _HANDLE_AUTH, material.key2_msg),
       TOp("read", _HANDLE_VERIFY, <<>>) >>

\* C2 (retry exhaustion): a fill cycle all of whose attempts ended with the
\* wait of fill_cache running into its timeout has made `retries` attempts
\* and slept retries - 1 times when it is over.
C2_TimeoutsAreRetried ==
    \A t \in Threads :
        (/\ op[t] = "get" /\ pc[t] = "pv_release" /\ filled[t]
         /\ log[t] # <<>>
         /\ \A k \in DOMAIN AttemptEnds(log[t]) : AttemptEnds(log[t])[k] = "Timeout")
            => /\ Len(AttemptEnds(log[t])) = retries
               /\ Sleeps(log[t]) = retries - 1

\* C3 (fast-fail window): when a fill cycle is over, its last attempt ended in
\* a timeout, a decode error or an authentication mismatch, and no snapshot is
\* stored, _last_read is now - cache_timeout + 300 seconds.
C3_FailureOpensFastFailWindow ==
    \A t \in Threads :
        (/\ op[t] = "get" /\ pc[t] = "pv_release" /\ filled[t]
         /\ log[t] # <<>>
         /\ Last(log[t]) \in {"Timeout", "DecodeError", "AuthenticationFailed"}
         /\ _cache = None)
            => _last_read = Some(now - cache_timeout + backoff_window)

\* C4 (transport-fault fast path): after an attempt of a fill cycle ended in
\* BTLEInternalError, the connection is dropped and self._authenticated is
\* False when the next attempt starts, no sleep follows that attempt, and the
\* next attempt begins with a new Peripheral and reaches subscribeToData only
\* through the whole handshake.
C4_InternalErrorReconnectsAtOnce ==
    \A t \in Threads :
        (op[t] = "get" /\ log[t] # <<>>)
            => /\ \A k \in 1 .. Len(log[t]) - 1 :
                     log[t][k] = "BTLEInternalError" => log[t][k + 1] # "sleep"
               /\ (Last(log[t]) = "BTLEInternalError" /\ pc[t] \in {"fc_loop", "connect"})
                     => /\ _p = None
                        /\ ~_authenticated
                        /\ link = "down"
               /\ (Last(log[t]) = "BTLEInternalError" /\ pc[t] \in AttemptPcs)
                     => /\ trace[t] # <<>>
                        /\ trace[t][1] = Handshake[1]
                        /\ pc[t] = "auth" => ~_authenticated
                        /\ pc[t] = "s_svc" => trace[t] = Handshake

\* The attempt after a BTLEInternalError has redone the handshake on a new
\* connection.
C4_Witness ==
    /\ op[1] = "get" /\ pc[1] = "s_svc"
    /\ log[1] # <<>> /\ Last(log[1]) = "BTLEInternalError"
    /\ i[1] > 0
    /\ trace[1] = Handshake
    /\ _authenticated

\* The notification on _HANDLE_AUTH was handed over by the wait of auth(), the
\* one that follows the write of cipher(mixA, token).
HeardInHandshake(t) ==
    /\ auth_heard[t] # None
    /\ Get(auth_heard[t]).at > 1
    /\ Get(auth_heard[t]).at <= Len(trace[t])
    /\ trace[t][Get(auth_heard[t]).at - 1] = TOp("write", _HANDLE_AUTH, material.token_msg)

\* C5 (authentication mismatch): when the wait of auth() hands over bytes on
\* _HANDLE_AUTH that do not verify against the token, the wait is the last
\* transport call of that auth() (no write of cipher(token, _KEY2), no read of
\* _HANDLE_VERIFY), auth() has raised the authentication error, and
\* self._authenticated is False.
C5_MismatchFailsAuth ==
    \A t \in Threads :
        (HeardInHandshake(t) /\ Get(auth_heard[t]).data \notin material.accepted)
            => /\ Len(trace[t]) = Get(auth_heard[t]).at
               /\ ~_authenticated
               /\ pc[t] \notin AttemptPcs \cup {"q_read"}
               /\ IF op[t] = "get"
                  THEN "AuthenticationFailed" \in {log[t][k] : k \in DOMAIN log[t]}
                  ELSE /\ pc[t] = "done"
                       /\ result[t] = [kind |-> "raised", error |-> "AuthenticationFailed"]

\* A fill cycle's attempt has ended in the authentication error.
C5_Witness ==
    /\ op[1] = "get" /\ pc[1] = "except_other"
    /\ HeardInHandshake(1)
    /\ Get(auth_heard[1]).data \notin material.accepted
    /\ Last(log[1]) = "AuthenticationFailed"

\* C6 (authenticated only after verification): when auth() has just read
\* _HANDLE_VERIFY and set self._authenticated, its wait had handed over a
\* notification on _HANDLE_AUTH whose bytes verify against the token.
C6_AuthenticatedOnlyAfterVerifiedResponse ==
    \A t \in Threads :
        (/\ pc[t] \in {"s_svc", "q_read"}
         /\ _authenticated
         /\ trace[t] # <<>>
         /\ Last(trace[t]) = TOp("read", _HANDLE_VERIFY, <<>>))
            => /\ HeardInHandshake(t)
               /\ Get(auth_heard[t]).data \in material.accepted

\* C7 (idempotence of auth): no position inside the handshake is reached while
\* self._authenticated is True, at most one handshake completes on a stored
\* connection, and the step of auth() taken with self._authenticated True
\* goes straight back to the caller, adds no transport call and leaves
\* self._authenticated, self._cache and self._last_read as they are.
C7_AuthIsIdempotent ==
    /\ [](\A t \in Threads : pc[t] \in HandshakePcs => ~_authenticated)
    /\ [](handshakes <= 1)
    /\ [][\A t \in Threads :
             (pc[t] = "auth" /\ _authenticated /\ pc'[t] # "auth")
                => /\ pc'[t] = AfterAuth(t)
                   /\ trace'[t] = trace[t]
                   /\ UNCHANGED << _authenticated, _cache, _last_read, handshakes >>]_vars

\* A later parameter_value call on the stored connection has passed auth()
\* without a transport call.
C7_Witness ==
    /\ op[1] = "get" /\ pc[1] = "s_svc"
    /\ _authenticated /\ handshakes = 1
    /\ trace[1] = <<>>

\* The positions at which a caller is inside connect / auth / subscribe / wait
\* or the read of a query.
SessionPcs == {"connect"} \cup AttemptPcs \cup {"q_read"}

\* C8 (mutual exclusion of transport sessions): at most one caller at a time
\* is inside connect / handshake / subscribe / wait / read.
C8_OneSessionAtATime ==
    \A t1, t2 \in Threads :
        (pc[t1] \in SessionPcs /\ pc[t2] \in SessionPcs) => t1 = t2

\* C9 (no reuse across a disconnect): when an attempt of a fill cycle starts
\* after one that ended in a transport error, of whichever class, no connection
\* is stored and self._authenticated is False.
C9_FaultDropsTheConnection ==
    \A t \in Threads :
        (/\ op[t] = "get" /\ pc[t] = "connect"
         /\ log[t] # <<>>
         /\ Last(AttemptEnds(log[t])) \in TransportErrors)
            => /\ _p = None
               /\ ~_authenticated

C11_ErrorNamesTheHandleRead ==
    \A t \in Threads :
        (/\ op[t] \in Queries /\ pc[t] = "done"
         /\ result[t].kind = "raised"
         /\ result[t].error = "Could not read")
            => /\ trace[t] # <<>>
               /\ Last(trace[t]).op = "read"
               /\ result[t].handle = Last(trace[t]).handle
               /\ result[t].mac = _mac

\* The probe holds what _parse_data gave for probe.data.
Parsed == probe.fn = "_parse_data" /\ probe.stage = "output"

\* The bytes at offsets 0, 1, 6 and 9 of d are values the device documents.
MappedEnums(d) ==
    /\ d[1] \in {0, 1, 2, 3}
    /\ d[2] \in {1, 2, 255}
    /\ d[7] \in {0, 1}
    /\ d[10] \in {0, 1}

\* C12 as stated (decoder totality): every frame of exactly 11 bytes, whatever
\* its byte values, decodes to a record and raises no error.
C12_DecoderTotalOnAllFrames ==
    (Parsed /\ Len(probe.data) = 11)
        => /\ ~probe.raised
           /\ probe.out # None

\* C12 as amended: a frame of exactly 11 bytes whose bytes at offsets 0, 1, 6
\* and 9 are keys of the action, mode, keep-warm-type and extended-warm-up
\* maps decodes without error to a record with all 8 fields, the four plain
\* fields being the bytes at offsets 4, 5, 7 and 10; a frame of 11 bytes with
\* another byte at one of the four enumerated offsets, and every frame of 10
\* or fewer bytes, raises and gives no record.
C12_DecoderTotalOnMappedFrames ==
    Parsed =>
        LET d == probe.data
        IN  /\ (Len(d) = 11 /\ MappedEnums(d))
                  => /\ ~probe.raised
                     /\ probe.out # None
                     /\ DOMAIN Get(probe.out) =
                           {"action", "mode", "set_temperature", "current_temperature",
                            "kw_type", "current_kw_time", "ewu", "set_kw_time"}
                     /\ Get(probe.out).set_temperature = d[5]
                     /\ Get(probe.out).current_temperature = d[6]
                     /\ Get(probe.out).current_kw_time = d[8]
                     /\ Get(probe.out).set_kw_time = d[11]
            /\ (Len(d) <= 10 \/ (Len(d) = 11 /\ ~MappedEnums(d)))
                  => /\ probe.raised
                     /\ probe.out = None

\* An 11-byte frame with mode byte 255 has been decoded.
C12_Witness ==
    /\ Parsed
    /\ Len(probe.data) = 11
    /\ probe.data[2] = 255
    /\ ~probe.raised
    /\ Get(probe.out).mode = "none"
    /\ Get(probe.out).current_kw_time = 255

\* C13 (cipher round trip): for a key of 4 or 12 bytes and any input x,
\* cipher(key, cipher(key, x)) = x, and cipher(key, x) is as long as x.
C13_CipherRoundTrip ==
    (probe.fn = "cipher" /\ probe.stage = "output" /\ Len(probe.key) \in {4, 12})
        => /\ probe.twice = probe.data
           /\ Len(probe.once) = Len(probe.data)
           /\ \A k \in DOMAIN probe.once : probe.once[k] \in 0 .. 255

\* A three-byte input has been encrypted under the 12-byte token to other
\* bytes and decrypted again.
C13_Witness ==
    /\ probe.fn = "cipher" /\ probe.stage = "output"
    /\ probe.key = _token
    /\ Len(probe.data) = 3
    /\ probe.once # probe.data
    /\ probe.twice = probe.data

\* The transport calls of a complete auth(), in order, and those thread t has
\* issued in its current attempt after connect().
AuthOps == Tail(Handshake)
OpsAfterConnect(t) ==
    IF trace[t] # <<>> /\ trace[t][1] = Handshake[1] THEN Tail(trace[t]) ELSE trace[t]

\* How many calls of auth() have returned when thread t is at a position
\* inside auth().
StepsDone(label) ==
    CASE label = "a_svc" -> 0
      [] label = "a_init" -> 1
      [] label = "a_desc" -> 2
      [] label = "a_tok" -> 3
      [] label = "a_wait" -> 4
      [] label = "a_key2" -> 5
      [] label = "a_verify" -> 6

\* An exception has left the current attempt or query of thread t.
Failed(t) ==
    \/ pc[t] \in {"except_internal", "except_other"}
    \/ /\ op[t] \in Queries /\ pc[t] = "done"
       /\ result[t].kind = "raised"
       /\ result[t].error # "Could not read"

Exceptions ==
    TransportErrors \cup {"AttributeError", "AuthenticationFailed", "DecodeError"}

\* The fill cycle of thread t's parameter_value call is over.
CycleOver(t) == op[t] = "get" /\ filled[t] /\ pc[t] \in {"pv_release", "pv_return", "done"}

\* C15 (cache entry invariant): when a fill cycle is over, a snapshot is
\* stored if and only if that cycle decoded a status notification.
C15_SnapshotIffLastFillDecoded ==
    \A t \in Threads :
        CycleOver(t) => (_cache # None <=> decoded[t])

\* C16 (null payload on the status handle): an attempt that ended with a
\* status notification without payload is followed by a sleep and another
\* attempt, or, as the last of the cycle, is the attempt number `retries`
\* and leaves _last_read = now - cache_timeout + 300 seconds; the snapshot
\* is as it was.
C16_NullPayloadIsAFailedAttempt ==
    \A t \in Threads :
        (op[t] = "get" /\ filled[t])
            => \A k \in DOMAIN log[t] :
                  log[t][k] = "NullPayload"
                     => /\ k < Len(log[t]) => log[t][k + 1] = "sleep"
                        /\ (k = Len(log[t]) /\ pc[t] = "pv_release")
                              => /\ Len(AttemptEnds(log[t])) = retries
                                 /\ _last_read = Some(now - cache_timeout + backoff_window)

\* C17 (no hammering): when a fill cycle is over in which every attempt ended
\* in an exception, a parameter_value call with read_cached = True made at
\* once finds the cache not stale, so it makes no transport attempt.
C17_FailedCycleOpensBackoff ==
    \A t \in Threads :
        (/\ CycleOver(t) /\ pc[t] = "pv_release"
         /\ log[t] # <<>>
         /\ \A k \in DOMAIN AttemptEnds(log[t]) : AttemptEnds(log[t])[k] \in Exceptions)
            => ~Stale(TRUE, _last_read, now)

\* C18 (forced refresh): a parameter_value call with read_cached = False that
\* returned a value decoded a status frame itself.
C18_ForcedRefreshIsFresh ==
    \A t \in Threads :
        (/\ op[t] = "get" /\ pc[t] = "done"
         /\ ~read_cached[t]
         /\ result[t].kind = "value")
            => decoded[t]

\* C19 (authenticated implies connected), for one caller: self._authenticated
\* is True only while a connection is stored, every position at which a
\* transport call is issued is reached with a connection stored (no call ever
\* fails for want of one), and the step that drops the connection leaves
\* self._authenticated False.
C19_AuthenticatedImpliesConnected ==
    /\ [](_authenticated => _p # None)
    /\ [](\A t \in Threads :
             /\ pc[t] \in AttemptPcs \cup {"q_read"} => _p # None
             /\ \A k \in DOMAIN log[t] : log[t][k] # "AttributeError"
             /\ (pc[t] = "done" /\ result[t].kind = "raised")
                   => result[t].error # "AttributeError")
    /\ [][(_p # None /\ _p' = None) => ~_authenticated']_vars

\* The connection on which a handshake had completed has just been dropped.
C19_Witness ==
    /\ op[1] = "get" /\ pc[1] = "fc_loop"
    /\ log[1] # <<>> /\ Last(log[1]) = "BTLEInternalError"
    /\ Len(trace[1]) > Len(AuthOps)
    /\ _p = None /\ ~_authenticated

\* The positions of parameter_value inside its with block.
LockedPcs ==
    {"pv_test", "fc_loop", "connect"} \cup AttemptPcs
        \cup {"except_internal", "except_other", "fc_sleep", "pv_release"}

\* C20 (lock release and termination): the lock is held by a thread exactly
\* while that thread is inside the with block of parameter_value; a fill
\* cycle makes at most `retries` attempts; the call that has taken the lock
\* ends, with the lock released, whatever happens in its fill cycle; and a
\* second caller waiting for the lock held by that call gets it.  (The clock
\* bound of the run never stops a sleep.)
C20_GetTerminatesAndReleases ==
    /\ [](\A t \in Threads :
             /\ lock = t <=> (op[t] = "get" /\ pc[t] \in LockedPcs)
             /\ Len(AttemptEnds(log[t])) <= retries
             /\ i[t] <= retries
             /\ pc[t] = "fc_sleep" => budget > 0)
    /\ (pc[1] = "pv_test") ~> (pc[1] = "done" /\ lock # 1)
    /\ (pc[2] = "pv_lock" /\ lock = 1) ~> (lock = 2)

\* The first call used up its attempts and raised, and the second caller,
\* who was waiting, has the lock.
C20_Witness ==
    /\ pc[1] = "done" /\ result[1].kind = "raised"
    /\ Len(AttemptEnds(log[1])) = retries
    /\ Sleeps(log[1]) = retries - 1
    /\ lock = 2 /\ pc[2] = "pv_test"

====
